---- MODULE Spec2Model ----
(***************************************************************************)
(* A model of the todo HTTP API of src/src/main.rs: five request handlers  *)
(* over one MongoDB collection, plus the detached seeding task of main.    *)
(* Each await on a store call is one atomic step of the store; the code a  *)
(* handler runs before and after the call belongs to the same step. Every  *)
(* store call may fail (ok = FALSE), and a failed call changes nothing.    *)
(* insert_one always acknowledges with an ObjectId, since CreateTodo has   *)
(* no _id field: the "Invalid response" branch of create_todo is dead.     *)
(*                                                                         *)
(* Spec     the server with the default seed = 0: requests in two slots    *)
(* SpecList get_todos over the whole range of page_num and page_size       *)
(* SpecSeed the seeding task of a server started with seed > 0             *)
(***************************************************************************)
EXTENDS Integers, Sequences, FiniteSets, TLC

VARIABLES
    store,            \* the "todo" collection, in natural (insertion) order
    nextOid,          \* number the store uses for the next generated _id
    task,             \* per request slot: the handler's position and locals
    response,         \* the response being sent to a client, if any
    seed,             \* Args.seed
    seedpc,           \* position of the spawned seeding task
    overflow_checks,  \* build profile: TRUE panics on overflow, FALSE wraps
    created,          \* history: _id -> CreateTodo input, while untouched
    deleted,          \* history: _ids a delete request answered 200 for
    solo              \* history: slot ran alone since its find_one

vars == <<store, nextOid, task, response, seed, seedpc,
          overflow_checks, created, deleted, solo>>

-----------------------------------------------------------------------------
(* Bounds *)

MaxOid == 1        \* _ids the store generates for create_todo: 1..MaxOid
MaxInitDocs == 1   \* documents an earlier run left in the collection
MaxSeed == 4       \* Args.seed, when the seeding task is run
MaxDocs == 5       \* size of the collections that are listed

Reqs == {1, 2}     \* requests in flight at once
Titles == {"a", "b"}

-----------------------------------------------------------------------------
(* Option<T>: None is the empty sequence, Some(v) is <<v>> *)

None == <<>>
Some(v) == <<v>>
UnwrapOr(o, d) == IF o = <<>> THEN d ELSE o[1]
Opt(S) == {None} \cup {Some(v) : v \in S}

-----------------------------------------------------------------------------
(* Identifier codec: bson ObjectId (12 bytes) and its 24 character hex form. *)
(* A string is a sequence of one-character strings.                          *)

OidLen == 12
HexLower == <<"0","1","2","3","4","5","6","7","8","9","a","b","c","d","e","f">>
HexUpper == <<"0","1","2","3","4","5","6","7","8","9","A","B","C","D","E","F">>

IsHexChar(c) == \E i \in 1..16 : HexLower[i] = c \/ HexUpper[i] = c
HexVal(c) == (CHOOSE i \in 1..16 : HexLower[i] = c \/ HexUpper[i] = c) - 1

\* ObjectId::to_hex: two lower-case hex characters per byte
to_hex(oid) ==
    [i \in 1..(2 * Len(oid)) |->
        IF i % 2 = 1 THEN HexLower[(oid[(i + 1) \div 2] \div 16) + 1]
                     ELSE HexLower[(oid[i \div 2] % 16) + 1]]

\* hex::decode of an even-length, all-hex string
HexDecode(s) ==
    [i \in 1..(Len(s) \div 2) |-> 16 * HexVal(s[2 * i - 1]) + HexVal(s[2 * i])]

\* ObjectId::parse_str / ObjectId::from_str: Ok(oid) or Err(reason).
\* A faulty variant: the decoded length is not checked.
parse_str_nolen(s) ==
    IF Len(s) % 2 = 1
    THEN [ok |-> FALSE, oid |-> <<>>, err |-> "InvalidHexStringLength"]
    ELSE IF \E i \in 1..Len(s) : ~IsHexChar(s[i])
    THEN [ok |-> FALSE, oid |-> <<>>, err |-> "InvalidHexStringCharacter"]
    ELSE [ok |-> TRUE, oid |-> HexDecode(s), err |-> ""]

parse_str(s) ==
    IF Len(s) % 2 = 1
    THEN [ok |-> FALSE, oid |-> <<>>, err |-> "InvalidHexStringLength"]
    ELSE IF \E i \in 1..Len(s) : ~IsHexChar(s[i])
    THEN [ok |-> FALSE, oid |-> <<>>, err |-> "InvalidHexStringCharacter"]
    ELSE IF Len(s) \div 2 # OidLen
    THEN [ok |-> FALSE, oid |-> <<>>, err |-> "InvalidHexStringLength"]
    ELSE [ok |-> TRUE, oid |-> HexDecode(s), err |-> ""]

\* The _id the store generates from its counter
OidOf(n) == [i \in 1..OidLen |-> IF i = OidLen THEN n ELSE 0]
\* The _id of a document of an earlier run (an older timestamp byte)
OldOid(n) == [i \in 1..OidLen |-> IF i = OidLen THEN n ELSE IF i = 1 THEN 1 ELSE 0]

\* Identifier strings a client sends
BadIds ==
    { <<>>,
      <<"a","b","c">>,
      <<"a","b">>,
      <<"z","z","1","1","2","2","3","3","4","4","5","5",
        "6","6","7","7","8","8","9","9","0","0","1","1">> }
UpperId == [i \in 1..(2 * OidLen) |-> IF i = 2 * OidLen THEN "A" ELSE "0"]
GoodIds == {to_hex(OidOf(n)) : n \in 1..MaxOid} \cup {UpperId}
IdInputs == GoodIds \cup BadIds

-----------------------------------------------------------------------------
(* u64 arithmetic. A u64 is its eight bytes, least significant first, so    *)
(* that wrapping, overflow and the cast to i64 are those of the 64-bit type. *)

U64Bytes == 8
Byte == 256

\* the u64 of a small natural number (n < 65536)
U64(n) == [i \in 1..U64Bytes |->
             IF i = 1 THEN n % Byte ELSE IF i = 2 THEN (n \div Byte) % Byte ELSE 0]
U64Top == [i \in 1..U64Bytes |-> IF i = U64Bytes THEN 128 ELSE 0]      \* 2^63
U64TopPlus1 == [i \in 1..U64Bytes |->
                  IF i = U64Bytes THEN 128 ELSE IF i = 1 THEN 1 ELSE 0] \* 2^63 + 1
U64Max == [i \in 1..U64Bytes |-> 255]                                  \* 2^64 - 1

IsZero(u) == \A i \in DOMAIN u : u[i] = 0

\* u - 1 and u + 1, wrapping
WrappingDec(u) ==
    [i \in DOMAIN u |-> IF \A j \in 1..(i - 1) : u[j] = 0
                        THEN (u[i] + Byte - 1) % Byte ELSE u[i]]
WrappingInc(u) ==
    [i \in DOMAIN u |-> IF \A j \in 1..(i - 1) : u[j] = Byte - 1
                        THEN (u[i] + 1) % Byte ELSE u[i]]

\* schoolbook product of two u64: column sums, carries, and the 16 bytes
RECURSIVE ColumnSum(_, _, _, _)
ColumnSum(a, b, k, i) ==
    IF i = 0 THEN 0
    ELSE (IF k - i + 1 \in 1..U64Bytes THEN a[i] * b[k - i + 1] ELSE 0)
         + ColumnSum(a, b, k, i - 1)
RECURSIVE MulFrom(_, _, _, _)
\* bytes k..16 of the product, given the carry into column k
MulFrom(a, b, k, carry) ==
    IF k > 2 * U64Bytes THEN <<>>
    ELSE LET t == ColumnSum(a, b, k, U64Bytes) + carry
         IN  <<t % Byte>> \o MulFrom(a, b, k + 1, t \div Byte)
FullMul(a, b) == MulFrom(a, b, 1, 0)
WrappingMul(a, b) == SubSeq(FullMul(a, b), 1, U64Bytes)
MulOverflows(a, b) ==
    LET p == FullMul(a, b) IN \E k \in (U64Bytes + 1)..(2 * U64Bytes) : p[k] # 0

\* the value of u, saturated at cap (cap < 65536)
Saturated(u, cap) ==
    IF \E i \in 3..Len(u) : u[i] # 0 THEN cap
    ELSE IF u[1] + Byte * u[2] > cap THEN cap ELSE u[1] + Byte * u[2]

\* `as i64`: the same bits; negative when the top bit is set
IsNegativeI64(u) == u[U64Bytes] >= 128
\* |x| of an i64 given by its bits
AbsI64(u) == IF IsNegativeI64(u)
             THEN WrappingInc([i \in DOMAIN u |-> Byte - 1 - u[i]])
             ELSE u

-----------------------------------------------------------------------------
(* Pagination window of get_todos *)

DefaultPageSize == 10
DefaultPageNum == 1

\* the arithmetic (page_num - 1) * page_size panics in a build with overflow checks
PageSkipPanics(page_num, page_size) ==
    \/ IsZero(page_num)
    \/ MulOverflows(WrappingDec(page_num), page_size)
\* .skip((page_num - 1) * page_size), wrapping
PageSkip(page_num, page_size) == WrappingMul(WrappingDec(page_num), page_size)
\* .limit(page_size as i64)
PageLimit(page_size) == page_size

PageInputs == Opt({U64(0), U64(1), U64(2), U64(3), U64Top, U64TopPlus1, U64Max})
FewPageInputs == Opt({U64(0), U64(2)})

-----------------------------------------------------------------------------
(* The document store: the "todo" collection *)

Doc(oid, title, is_done) == [_id |-> oid, title |-> title, is_done |-> is_done]

Ids(coll) == {coll[i]._id : i \in 1..Len(coll)}
Has(coll, oid) == \E i \in 1..Len(coll) : coll[i]._id = oid

\* find_one({_id: oid}): Some(doc) or None
find_one(coll, oid) ==
    IF Has(coll, oid)
    THEN Some(coll[CHOOSE i \in 1..Len(coll) : coll[i]._id = oid])
    ELSE None

\* find({}, skip, limit), collected: skip documents in natural order, then at
\* most |limit| documents; a limit of 0 is no limit.
find_many(coll, skip, limit) ==
    LET s == Saturated(skip, Len(coll))
        rest == SubSeq(coll, s + 1, Len(coll))
    IN  IF IsZero(limit) THEN rest
        ELSE SubSeq(rest, 1, Saturated(AbsI64(limit), Len(rest)))

\* update_one({_id: oid}, {$set: {title, is_done}}), no upsert
update_one(coll, oid, title, is_done) ==
    [i \in 1..Len(coll) |->
        IF coll[i]._id = oid THEN Doc(oid, title, is_done) ELSE coll[i]]

RECURSIVE Without(_, _)
Without(coll, oid) ==
    IF coll = <<>> THEN <<>>
    ELSE IF Head(coll)._id = oid THEN Without(Tail(coll), oid)
    ELSE <<Head(coll)>> \o Without(Tail(coll), oid)
\* delete_one({_id: oid})
delete_one(coll, oid) == Without(coll, oid)

\* A faulty variant: the is_done of the request is not stored
insert_one_undone(coll, n, title, is_done) == Append(coll, Doc(OidOf(n), title, FALSE))

\* insert_one(doc): the store generates the _id
insert_one(coll, n, title, is_done) == Append(coll, Doc(OidOf(n), title, is_done))

-----------------------------------------------------------------------------
(* Error classifier: ResErr and its response *)

BadRequest(msg) == [kind |-> "BadRequest", id |-> <<>>, msg |-> msg]
NotFound(msg) == [kind |-> "NotFound", id |-> <<>>, msg |-> msg]
InvalidObjectId(id, reason) == [kind |-> "InvalidObjectId", id |-> id, msg |-> reason]

\* A faulty variant: NotFound answered as a bad request
status_code_all400(err) == 400

\* ResErr::status_code
status_code(err) ==
    IF err.kind \in {"BadRequest", "InvalidObjectId"} THEN 400 ELSE 404

\* ResErr::err_msg: the JSON body
err_msg(err) ==
    IF err.kind = "InvalidObjectId"
    THEN [id |-> err.id, message |-> err.msg]
    ELSE [message |-> <<err.kind, err.msg>>]

\* An exchange: the request of a client and what it receives
Reply(op, req, status, body) ==
    [op |-> op, req |-> req, status |-> status, body |-> body]
NoResponse == Reply("none", "none", 0, "none")
\* ResponseError::error_response
error_response(op, req, err) == Reply(op, req, status_code(err), err_msg(err))
\* Responder for IdResponse and for Todo; the JSON array of get_todos
Ok200(op, req, body) == Reply(op, req, 200, body)
IdResponse(id) == [id |-> id]
\* a panic inside the handler: the connection is dropped without a response
Aborted(op, req) == Reply(op, req, 0, "panic")

\* The requests, as far as the exchange records them
CreateTodo(title, is_done) == [title |-> title, is_done |-> is_done]
TodosQuery(page_num, page_size) == [page_num |-> page_num, page_size |-> page_size]
ById(id) == [id |-> id]

-----------------------------------------------------------------------------
(* Request slots *)

\* A handler between its find_one and its update_one / delete_one holds the
\* request (id, title, is_done), the parsed oid and, for update_todo, the
\* $set document of line 220, built from the request and found_todo.
Idle == [pc |-> "idle", id |-> <<>>, oid |-> <<>>,
         title |-> None, is_done |-> None, set |-> None]

\* A response is written out before anything else happens; a new request is
\* taken by the first free slot (the slots are interchangeable).
Ready == response = NoResponse
Accepts(r) ==
    /\ Ready
    /\ task[r].pc = "idle"
    /\ \A q \in Reqs : q < r => task[q].pc # "idle"

\* history: slot r steps; every other slot has no longer run alone
Alone(r, v) == [q \in Reqs |-> IF q = r THEN v ELSE FALSE]
Untouched(oid) == {c \in created : c._id # oid}

send_response ==
    /\ response # NoResponse
    /\ response' = NoResponse
    /\ UNCHANGED <<store, nextOid, task, seed, seedpc, overflow_checks,
                   created, deleted, solo>>

-----------------------------------------------------------------------------
(* POST /todo *)

create_todo(r, title, is_done, ok) ==
    /\ Accepts(r)
    /\ nextOid <= MaxOid
    /\ IF ok
       THEN /\ store' = insert_one(store, nextOid, title, is_done)
            /\ nextOid' = nextOid + 1
            /\ response' = Ok200("create_todo", CreateTodo(title, is_done), IdResponse(to_hex(OidOf(nextOid))))
            /\ created' = created \cup {Doc(OidOf(nextOid), title, is_done)}
       ELSE /\ response' = error_response("create_todo", CreateTodo(title, is_done),
                                          BadRequest(<<"Failed to create todo">>))
            /\ UNCHANGED <<store, nextOid, created>>
    /\ solo' = Alone(r, FALSE)
    /\ UNCHANGED <<task, seed, seedpc, overflow_checks, deleted>>

(* GET /todo?page_num=&page_size= *)

get_todos(r, page_num_q, page_size_q, outcome) ==
    LET page_size == UnwrapOr(page_size_q, U64(DefaultPageSize))
        page_num == UnwrapOr(page_num_q, U64(DefaultPageNum))
    IN  /\ Accepts(r)
        /\ IF overflow_checks /\ PageSkipPanics(page_num, page_size)
           THEN response' = Aborted("get_todos", TodosQuery(page_num_q, page_size_q))
           ELSE response' =
                  CASE outcome = "ok" ->
                         Ok200("get_todos", TodosQuery(page_num_q, page_size_q),
                               find_many(store, PageSkip(page_num, page_size),
                                         PageLimit(page_size)))
                    [] outcome = "find_err" ->
                         error_response("get_todos", TodosQuery(page_num_q, page_size_q), BadRequest(<<"Failed to get todos">>))
                    [] outcome = "collect_err" ->
                         error_response("get_todos", TodosQuery(page_num_q, page_size_q), BadRequest(<<"Failed to query todos">>))
        /\ solo' = Alone(r, FALSE)
        /\ UNCHANGED <<store, nextOid, task, seed, seedpc, overflow_checks,
                       created, deleted>>

(* GET /todo/{id} *)

get_todo(r, id, ok) ==
    LET p == parse_str(id)
    IN  /\ Accepts(r)
        /\ response' =
             IF ~p.ok THEN error_response("get_todo", ById(id), InvalidObjectId(id, p.err))
             ELSE IF ~ok
             THEN error_response("get_todo", ById(id), BadRequest(<<"Unable to perform query">>))
             ELSE IF find_one(store, p.oid) = None
             THEN error_response("get_todo", ById(id),
                                 NotFound(<<"todo with id of", id, "is not found">>))
             ELSE Ok200("get_todo", ById(id), find_one(store, p.oid)[1])
        /\ solo' = Alone(r, FALSE)
        /\ UNCHANGED <<store, nextOid, task, seed, seedpc, overflow_checks,
                       created, deleted>>

(* PUT /todo: find_one, then update_one *)

\* A faulty variant: an absent is_done is written as false
SetDocDefaultFalse(title, is_done, found) ==
    [title |-> UnwrapOr(title, found.title), is_done |-> UnwrapOr(is_done, FALSE)]

\* the $set document: a field of the request, or else the one read by find_one
SetDoc(title, is_done, found) ==
    [title |-> UnwrapOr(title, found.title),
     is_done |-> UnwrapOr(is_done, found.is_done)]

update_todo_find(r, id, title, is_done, ok) ==
    LET p == parse_str(id)
    IN  /\ Accepts(r)
        /\ IF ~p.ok
           THEN /\ response' = error_response("update_todo", ById(id), InvalidObjectId(id, p.err))
                /\ solo' = Alone(r, FALSE)
                /\ UNCHANGED task
           ELSE IF ~ok
           THEN /\ response' = error_response("update_todo", ById(id), BadRequest(<<"store error">>))
                /\ solo' = Alone(r, FALSE)
                /\ UNCHANGED task
           ELSE IF find_one(store, p.oid) = None
           THEN /\ response' = error_response("update_todo", ById(id), BadRequest(<<"todo not found">>))
                /\ solo' = Alone(r, FALSE)
                /\ UNCHANGED task
           ELSE /\ task' = [task EXCEPT ![r] =
                              [pc |-> "update_one", id |-> id, oid |-> p.oid,
                               title |-> title, is_done |-> is_done,
                               set |-> Some(SetDoc(title, is_done,
                                                   find_one(store, p.oid)[1]))]]
                /\ solo' = Alone(r, TRUE)
                /\ UNCHANGED response
        /\ UNCHANGED <<store, nextOid, seed, seedpc, overflow_checks, created, deleted>>

update_todo_apply(r, ok) ==
    LET t == task[r]
    IN  /\ Ready
        /\ t.pc = "update_one"
        /\ IF ok
           THEN /\ store' = update_one(store, t.oid, t.set[1].title, t.set[1].is_done)
                /\ response' = Ok200("update_todo", ById(t.id), IdResponse(t.id))
                /\ created' = Untouched(t.oid)
           ELSE /\ response' = error_response("update_todo", ById(t.id),
                                  BadRequest(<<"Unable to update todo with id", t.id>>))
                /\ UNCHANGED <<store, created>>
        /\ task' = [task EXCEPT ![r] = Idle]
        /\ solo' = Alone(r, solo[r])
        /\ UNCHANGED <<nextOid, seed, seedpc, overflow_checks, deleted>>

(* DELETE /todo/{id}: find_one, then delete_one *)

delete_todo_find(r, id, ok) ==
    LET p == parse_str(id)
    IN  /\ Accepts(r)
        /\ IF ~p.ok
           THEN /\ response' = error_response("delete_todo", ById(id), InvalidObjectId(id, p.err))
                /\ UNCHANGED task
           ELSE IF ~ok
           THEN /\ response' = error_response("delete_todo", ById(id), BadRequest(<<"store error">>))
                /\ UNCHANGED task
           ELSE IF find_one(store, p.oid) = None
           THEN /\ response' = error_response("delete_todo", ById(id),
                                              BadRequest(<<id, "doesn't exist">>))
                /\ UNCHANGED task
           ELSE /\ task' = [task EXCEPT ![r] =
                              [pc |-> "delete_one", id |-> id, oid |-> p.oid,
                               title |-> None, is_done |-> None, set |-> None]]
                /\ UNCHANGED response
        /\ solo' = Alone(r, FALSE)
        /\ UNCHANGED <<store, nextOid, seed, seedpc, overflow_checks, created, deleted>>

delete_todo_apply(r, ok) ==
    LET t == task[r]
    IN  /\ Ready
        /\ t.pc = "delete_one"
        /\ IF ok
           THEN /\ store' = delete_one(store, t.oid)
                /\ response' = Ok200("delete_todo", ById(t.id), IdResponse(t.id))
                /\ created' = Untouched(t.oid)
                /\ deleted' = deleted \cup {t.oid}
           ELSE /\ response' = error_response("delete_todo", ById(t.id), BadRequest(<<"store error">>))
                /\ UNCHANGED <<store, created, deleted>>
        /\ task' = [task EXCEPT ![r] = Idle]
        /\ solo' = Alone(r, FALSE)
        /\ UNCHANGED <<nextOid, seed, seedpc, overflow_checks>>

-----------------------------------------------------------------------------
(* The seeding task spawned by main when args.seed > 0 *)

\* the generated todos: for i in 0..=args.seed
SeedRange(n) == 0..n
SeedTitle(i) == "Random " \o ToString(i)

RECURSIVE SeedDocs(_, _, _)
\* documents i..args.seed of the generated vector, with the _ids the store gives
SeedDocs(i, first, dones) ==
    IF i \notin SeedRange(seed) THEN <<>>
    ELSE <<Doc(OidOf(first + i), SeedTitle(i), dones[i])>>
         \o SeedDocs(i + 1, first, dones)

\* col.delete_many(doc! {}).await.unwrap()
seed_flush(ok) ==
    /\ Ready
    /\ seedpc = "flush"
    /\ IF ok
       THEN /\ store' = <<>>
            /\ created' = {}
            /\ seedpc' = "insert"
       ELSE /\ seedpc' = "panicked"
            /\ UNCHANGED <<store, created>>
    /\ UNCHANGED <<nextOid, task, response, seed, overflow_checks, deleted, solo>>

\* col.insert_many(todos).await.unwrap()
seed_insert(ok, dones) ==
    /\ Ready
    /\ seedpc = "insert"
    /\ IF ok
       THEN /\ store' = store \o SeedDocs(0, nextOid, dones)
            /\ nextOid' = nextOid + Cardinality(SeedRange(seed))
            /\ seedpc' = "done"
       ELSE /\ seedpc' = "panicked"
            /\ UNCHANGED <<store, nextOid>>
    /\ UNCHANGED <<task, response, seed, overflow_checks, created, deleted, solo>>

-----------------------------------------------------------------------------
(* The system *)

\* documents left in the collection by earlier runs
InitDocs(n) == [i \in 1..n |-> Doc(OldOid(i), "old", i % 2 = 0)]

InitWith(docs, seeds) ==
    /\ store \in {InitDocs(n) : n \in docs}
    /\ nextOid = 1
    /\ task = [r \in Reqs |-> Idle]
    /\ response = NoResponse
    /\ seed \in seeds
    /\ seedpc = IF seed > 0 THEN "flush" ELSE "off"
    /\ overflow_checks \in BOOLEAN
    /\ created = {}
    /\ deleted = {}
    /\ solo = [r \in Reqs |-> FALSE]

\* The server started with the default arguments (seed = 0): no seeding task
Init == InitWith(0..MaxInitDocs, {0})

Next ==
    \/ \E r \in Reqs, title \in Titles, is_done \in BOOLEAN, ok \in BOOLEAN :
         create_todo(r, title, is_done, ok)
    \/ \E r \in Reqs, pn \in FewPageInputs, ps \in FewPageInputs,
          outcome \in {"ok", "find_err", "collect_err"} :
         get_todos(r, pn, ps, outcome)
    \/ \E r \in Reqs, id \in IdInputs, ok \in BOOLEAN : get_todo(r, id, ok)
    \/ \E r \in Reqs, id \in IdInputs, title \in Opt(Titles),
          is_done \in Opt(BOOLEAN), ok \in BOOLEAN :
         update_todo_find(r, id, title, is_done, ok)
    \/ \E r \in Reqs, ok \in BOOLEAN : update_todo_apply(r, ok)
    \/ \E r \in Reqs, id \in IdInputs, ok \in BOOLEAN : delete_todo_find(r, id, ok)
    \/ \E r \in Reqs, ok \in BOOLEAN : delete_todo_apply(r, ok)
    \/ send_response

Spec == Init /\ [][Next]_vars

\* The list handler alone, over collections of 0..MaxDocs documents
InitList == InitWith(0..MaxDocs, {0})
NextList ==
    \/ \E r \in Reqs, pn \in PageInputs, ps \in PageInputs,
          outcome \in {"ok", "find_err", "collect_err"} :
         get_todos(r, pn, ps, outcome)
    \/ send_response
SpecList == InitList /\ [][NextList]_vars

\* The server started with seed = 0..MaxSeed, before any request arrives
InitSeed == InitWith(0..MaxInitDocs, 0..MaxSeed)
NextSeed ==
    \/ \E ok \in BOOLEAN : seed_flush(ok)
    \/ \E ok \in BOOLEAN, dones \in [SeedRange(seed) -> BOOLEAN] : seed_insert(ok, dones)
SpecSeed == InitSeed /\ [][NextSeed]_vars

-----------------------------------------------------------------------------
(* Properties *)

HexDigits == {"0","1","2","3","4","5","6","7","8","9",
              "a","b","c","d","e","f","A","B","C","D","E","F"}
\* a 24-hex-character object id
Is24Hex(s) == Len(s) = 24 /\ \A i \in 1..Len(s) : s[i] \in HexDigits

IsError(resp, status, kind) ==
    /\ resp.status = status
    /\ DOMAIN resp.body = {"message"}
    /\ resp.body.message[1] = kind
IsInvalidObjectId(resp, id) ==
    /\ resp.status = 400
    /\ DOMAIN resp.body = {"id", "message"}
    /\ resp.body.id = id

\* a step of a handler that answers (or aborts) a request
Answers(op) == response = NoResponse /\ response'.op = op
\* a step of slot r that leaves its handler waiting to apply pc
Awaits(r, pc) == task[r].pc = "idle" /\ task'[r].pc = pc

\* C1: when create_todo answers 200 with {id} for the input (title, is_done),
\* a get_todo of that id whose find_one succeeds, with no update_one, delete_one
\* or delete_many applied to the document in between, answers 200 with a Todo of
\* that _id, title and is_done.
C1_CreateThenGet ==
    [][ /\ (Answers("create_todo") /\ response'.status = 200)
           => \E c \in created' :
                /\ response'.body = IdResponse(to_hex(c._id))
                /\ c.title = response'.req.title
                /\ c.is_done = response'.req.is_done
        /\ Answers("get_todo")
           => \A r \in Reqs, c \in created :
                (response'.req.id = to_hex(c._id) /\ get_todo(r, to_hex(c._id), TRUE))
                => /\ response'.status = 200
                   /\ response'.body._id = c._id
                   /\ response'.body.title = c.title
                   /\ response'.body.is_done = c.is_done ]_vars

C1_Witness ==
    /\ response.op = "get_todo"
    /\ response.status = 200
    /\ response.body \in created
    /\ response.body.is_done

\* C2: an update_one applied for a request that ran alone since its find_one, to
\* a record still in the collection, writes the request's title and is_done
\* where present and leaves an absent field at its persisted value; the _id,
\* the order and every other record are unchanged.
C2_PartialUpdate ==
    [][ \A r \in Reqs :
          /\ Awaits(r, "update_one")
             => update_todo_find(r, task'[r].id, task'[r].title, task'[r].is_done, TRUE)
          /\ (task[r].pc = "update_one" /\ update_todo_apply(r, TRUE)
                /\ solo[r] /\ Has(store, task[r].oid))
             => /\ Len(store') = Len(store)
                /\ \A i \in 1..Len(store) :
                     IF store[i]._id # task[r].oid THEN store'[i] = store[i]
                     ELSE /\ store'[i]._id = store[i]._id
                          /\ store'[i].title =
                               IF task[r].title = None THEN store[i].title
                               ELSE task[r].title[1]
                          /\ store'[i].is_done =
                               IF task[r].is_done = None THEN store[i].is_done
                               ELSE task[r].is_done[1] ]_vars

C2_Witness ==
    /\ response.op = "update_todo"
    /\ response.status = 200
    /\ \E r \in Reqs : solo[r]
    /\ Len(store) >= 2
    /\ \E i \in 1..Len(store) :
         /\ to_hex(store[i]._id) = response.body.id
         /\ store[i].title = "b"
         /\ store[i].is_done

\* C3: for an identifier that is not 24 hex characters, get_todo, update_todo
\* and delete_todo answer 400 with the raw identifier in the body's id field,
\* whatever the store would have answered, leave the collection unchanged and
\* leave no store call pending.
C3_InvalidId ==
    [][ /\ ( /\ Answers("get_todo") \/ Answers("update_todo") \/ Answers("delete_todo")
             /\ ~Is24Hex(response'.req.id) )
           => /\ IsInvalidObjectId(response', response'.req.id)
              /\ store' = store
              /\ task' = task
        /\ \A r \in Reqs :
             (Awaits(r, "update_one") \/ Awaits(r, "delete_one")) => Is24Hex(task'[r].id)
      ]_vars

C3_Witness ==
    /\ response.op = "delete_todo"
    /\ response.status = 400
    /\ response.req.id \in BadIds
    /\ response.body.id = response.req.id
    /\ store # <<>>

\* C4: for a well-formed identifier with no record in the collection, when the
\* find_one succeeds, get_todo answers 404 NotFound, update_todo and delete_todo
\* answer 400 BadRequest, and the collection is unchanged; a delete_one that
\* succeeds answers 200 and leaves no record of that _id, and none comes back,
\* so that a second delete of the same id answers 400 "doesn't exist".
Absent(id) == Is24Hex(id) /\ \A i \in 1..Len(store) : to_hex(store[i]._id) # to_hex(HexDecode(id))
C4_AbsentId ==
    [][ /\ \A r \in Reqs :
          /\ (Answers("get_todo") /\ get_todo(r, response'.req.id, TRUE)
                /\ Absent(response'.req.id))
             => IsError(response', 404, "NotFound") /\ store' = store
          /\ (Answers("update_todo") /\ task[r].pc = "idle"
                /\ Absent(response'.req.id)
                /\ \E title \in Opt(Titles), is_done \in Opt(BOOLEAN) :
                     update_todo_find(r, response'.req.id, title, is_done, TRUE))
             => IsError(response', 400, "BadRequest") /\ store' = store /\ task' = task
          /\ (Answers("delete_todo") /\ task[r].pc = "idle"
                /\ delete_todo_find(r, response'.req.id, TRUE)
                /\ Absent(response'.req.id))
             => /\ IsError(response', 400, "BadRequest")
                /\ response'.body.message[2] = <<response'.req.id, "doesn't exist">>
                /\ store' = store /\ task' = task
          /\ (Awaits(r, "update_one") \/ Awaits(r, "delete_one"))
             => ~Absent(task'[r].id)
          /\ (task[r].pc = "delete_one" /\ delete_todo_apply(r, TRUE))
             => /\ response' = Ok200("delete_todo", ById(task[r].id), IdResponse(task[r].id))
                /\ task[r].oid \in deleted'
        /\ \A o \in deleted' : ~Has(store', o) ]_vars

C4_Witness ==
    /\ response.op = "delete_todo"
    /\ IsError(response, 400, "BadRequest")
    /\ \E o \in deleted :
         /\ response.req.id = to_hex(o)
         /\ response.body.message[2] = <<to_hex(o), "doesn't exist">>

\* C5: for positive page_num and page_size, a get_todos whose store calls
\* succeed answers 200 with the records at positions (page_num - 1) * page_size
\* onward, at most page_size of them, in store order (none past the end), and
\* the collection is unchanged.
ExactSkip(page_num, page_size) == FullMul(WrappingDec(page_num), page_size)
ExpectedPage(coll, page_num, page_size) ==
    LET s == Saturated(ExactSkip(page_num, page_size), Len(coll))
        rest == SubSeq(coll, s + 1, Len(coll))
    IN  SubSeq(rest, 1, Saturated(page_size, Len(rest)))
C5_PageWindow ==
    [][ Answers("get_todos")
        => LET page_num == UnwrapOr(response'.req.page_num, U64(1))
               page_size == UnwrapOr(response'.req.page_size, U64(10))
           IN  /\ store' = store
               /\ (~IsZero(page_num) /\ ~IsZero(page_size) /\ response'.status # 400)
                  => /\ response'.status = 200
                     /\ response'.body = ExpectedPage(store, page_num, page_size) ]_vars

\* C6: every exchange ends with a response of status 200, 400 or 404.
C6_StatusClasses == response = NoResponse \/ response.status \in {200, 400, 404}

\* C7: for every page_num and page_size get_todos accepts, the request is not
\* aborted, (page_num - 1) * page_size neither underflows nor overflows 64 bits,
\* so that the skip is the exact product, and the limit is page_size.
C7_ExactWindow ==
    [][ Answers("get_todos")
        => LET page_num == UnwrapOr(response'.req.page_num, U64(1))
               page_size == UnwrapOr(response'.req.page_size, U64(10))
           IN  /\ response'.status # 0
               /\ ~IsZero(page_num)
               /\ ExactSkip(page_num, page_size)
                    = PageSkip(page_num, page_size) \o [i \in 1..U64Bytes |-> 0]
               /\ ~IsNegativeI64(PageLimit(page_size)) ]_vars

\* C8: an update_one applied to a record leaves each field the request did not
\* set at the value the record holds, also when another update of the same id
\* was applied since the request's find_one.
C8_NoStaleWrite ==
    [][ \A r \in Reqs :
          (task[r].pc = "update_one" /\ update_todo_apply(r, TRUE))
          => \A i \in 1..Len(store) :
               store[i]._id = task[r].oid
               => /\ task[r].title = None => store'[i].title = store[i].title
                  /\ task[r].is_done = None => store'[i].is_done = store[i].is_done
      ]_vars

\* C9: an update answers 200 only if a record of that id was in the collection
\* when its update_one was applied, an update adds no record, and at most one
\* delete of a record answers 200.
C9_OnlyEffectiveSucceed ==
    [][ \A r \in Reqs :
          /\ (task[r].pc = "update_one" /\ update_todo_apply(r, TRUE))
             => Has(store, task[r].oid) /\ Ids(store') = Ids(store)
          /\ (task[r].pc = "delete_one" /\ delete_todo_apply(r, TRUE))
             => task[r].oid \notin deleted ]_vars

\* C10: once the seeding task has run with seed = N > 0, the collection holds
\* exactly N records, all of them generated; with N = 0 the task does not run.
C10_SeedCount ==
    /\ seedpc = "done"
       => /\ Len(store) = seed
          /\ \A i \in 1..Len(store) : \E k \in SeedRange(seed) : store[i].title = SeedTitle(k)
    /\ seed = 0 => seedpc = "off"

====
